---------------------------- MODULE Spec2Model ----------------------------
(***************************************************************************)
(* Model of report.py: parse_info_file (one info.txt -> record or None)    *)
(* and process_root_directory (fold of the records into aggregated_data).  *)
(*                                                                         *)
(* Text is modelled as it is in Python: a str is a sequence of one-char    *)
(* strings, so strip(), split(" - ", 1), split('.'), ".".join() and the    *)
(* whitespace split() are computed, not assumed.  A dict is a function     *)
(* whose DOMAIN is the set of keys; a list is a sequence.                  *)
(***************************************************************************)
EXTENDS Integers, Sequences, FiniteSets, TLC

VARIABLES
    aggregated_data,  \* process_root_directory: the accumulator (line 107)
    processed,        \* the files rglob has yielded so far, in order
    pc,               \* "loop" while the for loop runs, "done" after return
    result,           \* the value returned at line 159
    file,             \* parse_info_file: the file handed to one call
    parsed            \* parse_info_file: what that call returned

vars == <<aggregated_data, processed, pc, result, file, parsed>>

-----------------------------------------------------------------------------
(* Bounds of the model.                                                    *)

MaxFiles == 3        \* files rglob yields in one run
MaxHeaderLen == 7    \* characters of an enumerated header line
MaxLines == 9        \* content lines of an enumerated file body

-----------------------------------------------------------------------------
(* Python str and list primitives.                                         *)

Range(s) == {s[i] : i \in 1..Len(s)}

Last(s) == s[Len(s)]

ButLast(s) == SubSeq(s, 1, Len(s) - 1)

Min(a, b) == IF a < b THEN a ELSE b

Whitespace == {" ", "\n", "\t"}

Sep == <<" ", "-", " ">>

Dot == <<".">>

RECURSIVE LStrip(_)
LStrip(s) ==
    IF s = <<>> THEN s
    ELSE IF Head(s) \in Whitespace THEN LStrip(Tail(s)) ELSE s

RECURSIVE RStrip(_)
RStrip(s) ==
    IF s = <<>> THEN s
    ELSE IF Last(s) \in Whitespace THEN RStrip(ButLast(s)) ELSE s

\* str.strip()
Strip(s) == RStrip(LStrip(s))

\* str.find(sep) + 1: the first position where sep occurs in s, 0 when absent
Find(s, sep) ==
    LET hits == {i \in 1..(Len(s) - Len(sep) + 1) :
                    SubSeq(s, i, i + Len(sep) - 1) = sep}
    IN  IF hits = {} THEN 0 ELSE CHOOSE i \in hits : \A j \in hits : i <= j

\* str.split(sep, 1): one part when sep is absent, else the text before the
\* first sep and all the text after it
SplitOnce(s, sep) ==
    LET i == Find(s, sep)
    IN  IF i = 0 THEN <<s>>
        ELSE <<SubSeq(s, 1, i - 1), SubSeq(s, i + Len(sep), Len(s))>>

\* str.split(sep): always at least one part, empty parts kept
RECURSIVE SplitAll(_, _)
SplitAll(s, sep) ==
    LET i == Find(s, sep)
    IN  IF i = 0 THEN <<s>>
        ELSE <<SubSeq(s, 1, i - 1)>>
                 \o SplitAll(SubSeq(s, i + Len(sep), Len(s)), sep)

\* sep.join(parts)
RECURSIVE Join(_, _)
Join(parts, sep) ==
    IF parts = <<>> THEN <<>>
    ELSE IF Len(parts) = 1 THEN parts[1]
    ELSE parts[1] \o sep \o Join(Tail(parts), sep)

\* the first whitespace-free run of s (s starts with a non-blank character)
RECURSIVE TokenLen(_)
TokenLen(s) ==
    IF s = <<>> \/ Head(s) \in Whitespace THEN 0 ELSE 1 + TokenLen(Tail(s))

\* str.split() with no argument: runs of whitespace separate, no empty token
RECURSIVE SplitWs(_)
SplitWs(s) ==
    LET t == LStrip(s)
        n == TokenLen(t)
    IN  IF t = <<>> THEN <<>>
        ELSE <<SubSeq(t, 1, n)>> \o SplitWs(SubSeq(t, n + 1, Len(t)))

-----------------------------------------------------------------------------
(* parse_info_file.                                                        *)

\* the failure value (return None, lines 21, 24, 39)
None == [ok |-> FALSE]

\* lines[0].strip()  (line 27)
first_line(lines) == Strip(lines[1])

\* first_line.split(" - ", 1)[-1]  (line 31)
version_part(fl) == Last(SplitOnce(fl, Sep))

\* version_part.split('.')  (line 33)
version_parts(fl) == SplitAll(version_part(fl), Dot)

\* faulty variant of version_prefix: the [:-1] is forgotten
version_prefix_whole(fl) == Join(version_parts(fl), Dot)

\* ".".join(version_parts[:-1])  (line 34)
version_prefix(fl) == Join(ButLast(version_parts(fl)), Dot)

\* first_line.split(" - ", 1)[0]  (line 35)
os(fl) == SplitOnce(fl, Sep)[1]

\* version_parts[-1]  (line 36)
build(fl) == Last(version_parts(fl))

\* the except IndexError of lines 37-39 is taken when [-1] or [0] indexes an
\* empty list
HeaderIndexError(fl) ==
    \/ Len(SplitOnce(fl, Sep)) = 0
    \/ Len(version_parts(fl)) = 0

\* faulty variant of content_lines: the filter "if line.strip()" is forgotten
content_lines_keep_blank(lines) ==
    [i \in 1..(Len(lines) - 1) |-> Strip(lines[i + 1])]

\* [line.strip() for line in lines[1:] if line.strip()]  (line 47)
content_lines(lines) ==
    LET stripped == [i \in 1..(Len(lines) - 1) |-> Strip(lines[i + 1])]
    IN  SelectSeq(stripped, LAMBDA l : l # <<>>)

\* the 7 of content_lines[:7] and content_lines[7:]  (lines 50, 67)
SymbolLineCount == 7

\* content_lines[:7]  (line 50)
symbols_lines(cl) == SubSeq(cl, 1, Min(SymbolLineCount, Len(cl)))

\* content_lines[7:]  (line 67)
structs_lines(cl) == SubSeq(cl, SymbolLineCount + 1, Len(cl))

\* if name not in d: d[name] = []; d[name].append(hex)  (lines 59-61, 80-82)
AddValue(d, name, hex_value) ==
    IF name \in DOMAIN d
    THEN [d EXCEPT ![name] = Append(@, hex_value)]
    ELSE [n \in DOMAIN d \cup {name} |->
            IF n = name THEN <<hex_value>> ELSE d[n]]

\* faulty variant of AddSymbol: a line of more than two tokens is accepted
AddSymbolLoose(d, line) ==
    LET toks == SplitWs(line)
    IN  IF Len(toks) >= 2 THEN AddValue(d, toks[2], toks[1]) ELSE d

\* one iteration of the symbol loop (lines 51-64): the unpacking of line 54
\* raises ValueError unless split() gives exactly two tokens
AddSymbol(d, line) ==
    LET toks == SplitWs(line)
    IN  IF Len(toks) = 2 THEN AddValue(d, toks[2], toks[1]) ELSE d

\* one iteration of the struct loop (lines 68-85)
AddStruct(d, line) ==
    LET parts == SplitWs(line)
    IN  IF Len(parts) < 3 THEN d ELSE AddValue(d, Last(parts), parts[1])

\* the for loop of lines 51-64 over symbols_lines
RECURSIVE ParseSymbols(_, _)
ParseSymbols(d, ls) ==
    IF ls = <<>> THEN d ELSE ParseSymbols(AddSymbol(d, Head(ls)), Tail(ls))

\* the for loop of lines 68-85 over structs_lines
RECURSIVE ParseStructs(_, _)
ParseStructs(d, ls) ==
    IF ls = <<>> THEN d ELSE ParseStructs(AddStruct(d, Head(ls)), Tail(ls))

\* lines 26-92: the body of parse_info_file once the file has been read and
\* is not empty
parse_lines(lines) ==
    LET fl == first_line(lines)
        cl == content_lines(lines)
    IN  IF HeaderIndexError(fl) THEN None
        ELSE [ok             |-> TRUE,
              version_prefix |-> version_prefix(fl),
              build          |-> build(fl),
              os             |-> os(fl),
              data           |->
                  [symbols |-> ParseSymbols(<<>>, symbols_lines(cl)),
                   structs |-> ParseStructs(<<>>, structs_lines(cl))]]

\* faulty variant of parse_info_file: a file with no line gives an empty
\* record instead of None
parse_info_file_empty_record(f) ==
    IF ~f.readable THEN None
    ELSE IF f.lines = <<>>
         THEN [ok |-> TRUE, version_prefix |-> <<>>, build |-> <<>>,
               os |-> <<>>, data |-> [symbols |-> <<>>, structs |-> <<>>]]
         ELSE parse_lines(f.lines)

\* lines 16-24 then parse_lines: an unreadable file (IOError) and a file with
\* no line give None
parse_info_file(f) ==
    IF ~f.readable THEN None
    ELSE IF f.lines = <<>> THEN None
    ELSE parse_lines(f.lines)

-----------------------------------------------------------------------------
(* process_root_directory.                                                 *)

\* lines 127-132: the entry created by the first file of a version prefix
NewEntry(rec) ==
    [builds  |-> <<rec.build>>,
     os      |-> rec.os,
     symbols |-> <<>>,
     structs |-> <<>>]

\* faulty variant of ExtendBuilds: a build already listed is not appended
ExtendBuildsUnique(entry, rec) ==
    IF rec.build \in Range(entry.builds) THEN entry
    ELSE [entry EXCEPT !.builds = @ \o <<rec.build>>]

\* faulty variant of ExtendBuilds: the os is overwritten by each file
ExtendBuildsAndOs(entry, rec) ==
    [entry EXCEPT !.builds = @ \o <<rec.build>>, !.os = rec.os]

\* line 134: aggregated_data[version_prefix]["builds"] += [build]
ExtendBuilds(entry, rec) ==
    [entry EXCEPT !.builds = @ \o <<rec.build>>]

\* faulty variant of ExtendHexes: the new values are put in front
ExtendHexesInFront(cur, hex_values) ==
    SelectSeq(hex_values, LAMBDA h : h \notin Range(cur)) \o cur

\* faulty variant of ExtendHexes: a name that holds values takes no more
ExtendHexesOnlyWhenNew(cur, hex_values) ==
    IF cur = <<>> THEN hex_values ELSE cur

\* lines 145-147 (and 155-157): existing_hexes is the set of the values held
\* before the file, new_hexes keeps the file's values that are not in it, in
\* the file's order, and extend() puts them at the end
ExtendHexes(cur, hex_values) ==
    LET existing_hexes == Range(cur)
        new_hexes == SelectSeq(hex_values, LAMBDA h : h \notin existing_hexes)
    IN  cur \o new_hexes

\* the loop of lines 139-147 (and 150-157) over the names of the file
MergeNames(agg_map, file_map) ==
    [n \in DOMAIN agg_map \cup DOMAIN file_map |->
        IF n \in DOMAIN file_map
        THEN ExtendHexes(IF n \in DOMAIN agg_map THEN agg_map[n] ELSE <<>>,
                         file_map[n])
        ELSE agg_map[n]]

\* lines 120-157: one successfully parsed record folded into the accumulator
MergeRecord(agg, rec) ==
    LET k == rec.version_prefix
        entry0 == IF k \in DOMAIN agg THEN ExtendBuilds(agg[k], rec)
                  ELSE NewEntry(rec)
        entry == [entry0 EXCEPT
                    !.symbols = MergeNames(@, rec.data.symbols),
                    !.structs = MergeNames(@, rec.data.structs)]
    IN  [x \in DOMAIN agg \cup {k} |-> IF x = k THEN entry ELSE agg[x]]

-----------------------------------------------------------------------------
(* The info.txt files of the runs that are explored.                       *)

ReadableFile(lines) == [readable |-> TRUE, lines |-> lines]

\* open() raises IOError (line 19)
UnreadableFile == [readable |-> FALSE, lines |-> <<>>]

\* f.readlines() of a file of zero bytes (line 18)
EmptyFile == ReadableFile(<<>>)

\* "a - 1.2\n", "b - 1.3\n" (the same version prefix, another os),
\* " a - 2.2\n" (another version prefix) and "a-1.2\n" (no separator)
Headers ==
    { <<"a", " ", "-", " ", "1", ".", "2", "\n">>,
      <<"b", " ", "-", " ", "1", ".", "3", "\n">>,
      <<" ", "a", " ", "-", " ", "2", ".", "2", "\n">>,
      <<"a", "-", "1", ".", "2", "\n">> }

LineAf == <<"A", " ", "f", "\n">>            \* "A f\n"
LineBf == <<"B", " ", "f", "\n">>            \* "B f\n"
LineX == <<"x", "\n">>                       \* "x\n", one token
LineBlank == <<" ", "\n">>                   \* " \n"
LineATm == <<"A", " ", "T", " ", "m", "\n">> \* "A T m\n"
LineBTm == <<" ", "B", " ", " ", "T", "\t", "U", " ", "m", "\n">>
                                             \* " B  T\tU m\n"

\* two bodies: f -> [A], m -> [A];  and f -> [B, A], m -> [B, B], where the
\* file repeats a value of m, has a blank line and malformed lines
Bodies ==
    { <<LineAf, LineX, LineX, LineX, LineX, LineX, LineX, LineATm>>,
      <<LineBf, LineAf, LineX, LineX, LineBlank, LineX, LineATm, LineX,
        LineBTm, LineAf, LineBTm>> }

Files ==
    {ReadableFile(<<h>> \o b) : h \in Headers, b \in Bodies}
        \cup {EmptyFile, UnreadableFile}

\* parsed_result = parse_info_file(info_file_path) (line 115), for each file
\* of the tree
parsed_result == [f \in Files |-> parse_info_file(f)]

\* lines 113-157: one iteration of the for loop
process_file(agg, f) ==
    IF ~parsed_result[f].ok THEN agg ELSE MergeRecord(agg, parsed_result[f])

\* lines 107-159 as a function of the files rglob yields, in order
RECURSIVE process_files(_, _)
process_files(agg, tree) ==
    IF tree = <<>> THEN agg
    ELSE process_files(process_file(agg, Head(tree)), Tail(tree))

process_root_directory(tree) == process_files(<<>>, tree)

\* a file that no call has been given yet
NoFile == UnreadableFile

-----------------------------------------------------------------------------
(* Spec: one run of process_root_directory.                                *)

Init ==
    /\ aggregated_data = <<>>
    /\ processed = <<>>
    /\ pc = "loop"
    /\ result = <<>>
    /\ file = NoFile
    /\ parsed = None

\* one iteration of the for loop of line 112 on the next file rglob yields
ProcessFile ==
    /\ pc = "loop"
    /\ Len(processed) < MaxFiles
    /\ \E f \in Files :
        /\ aggregated_data' = process_file(aggregated_data, f)
        /\ processed' = Append(processed, f)
    /\ UNCHANGED <<pc, result, file, parsed>>

\* line 159: rglob is exhausted and the accumulator is returned
Return ==
    /\ pc = "loop"
    /\ pc' = "done"
    /\ result' = aggregated_data
    /\ UNCHANGED <<aggregated_data, processed, file, parsed>>

Next == ProcessFile \/ Return

Spec == Init /\ [][Next]_vars

-----------------------------------------------------------------------------
(* SpecParse: one call of parse_info_file on an enumerated file.           *)

HeaderAlphabet == {" ", "-", ".", "a"}

\* every header line of at most MaxHeaderLen characters, without a body
HeaderFiles ==
    {ReadableFile(<<h>>) :
        h \in UNION {[1..n -> HeaderAlphabet] : n \in 0..MaxHeaderLen}}

LineBTg == <<" ", "B", " ", " ", "T", "\t", "g", "\n">>   \* " B  T\tg\n"

\* a blank line, a line of two tokens and a line of three tokens
ContentLines == {LineBlank, LineAf, LineBTg}

GoodHeader == <<"a", " ", "-", " ", "1", ".", "2", "\n">>

\* the header "a - 1.2\n" followed by every body of at most MaxLines lines
BodyFiles ==
    {ReadableFile(<<GoodHeader>> \o b) :
        b \in UNION {[1..n -> ContentLines] : n \in 0..MaxLines}}

InitParse ==
    /\ file \in HeaderFiles \cup BodyFiles \cup {EmptyFile, UnreadableFile}
    /\ parsed = None
    /\ pc = "call"
    /\ aggregated_data = <<>>
    /\ processed = <<>>
    /\ result = <<>>

\* the call parse_info_file(filepath) of line 115
ParseFile ==
    /\ pc = "call"
    /\ parsed' = parse_info_file(file)
    /\ pc' = "returned"
    /\ UNCHANGED <<aggregated_data, processed, result, file>>

NextParse == ParseFile

SpecParse == InitParse /\ [][NextParse]_vars

-----------------------------------------------------------------------------
(* Vocabulary of the properties.                                           *)

IsPrefix(s, t) == Len(s) <= Len(t) /\ SubSeq(t, 1, Len(s)) = s

NoDuplicate(s) == \A i, j \in 1..Len(s) : s[i] = s[j] => i = j

\* the distinct values of s in the order of their first occurrence
FirstSeen(s) ==
    LET idx == [i \in 1..Len(s) |-> i]
        first == SelectSeq(idx, LAMBDA i : \A j \in 1..(i - 1) : s[j] # s[i])
    IN  [i \in 1..Len(first) |-> s[first[i]]]

SepAt(s, i) ==
    i + 2 <= Len(s) /\ s[i] = " " /\ s[i + 1] = "-" /\ s[i + 2] = " "

\* the text s contains " - "
HasSeparator(s) == \E i \in 1..Len(s) : SepAt(s, i)

\* the text after the first " - " of s
TextAfterFirstSeparator(s) ==
    LET i == CHOOSE i \in 1..Len(s) :
                SepAt(s, i) /\ \A j \in 1..(i - 1) : ~SepAt(s, j)
    IN  SubSeq(s, i + 3, Len(s))

HasPeriod(s) == \E i \in 1..Len(s) : s[i] = "."

\* a file that was read, has a first line, and has no " - " in it
LacksSeparator(f) ==
    f.readable /\ f.lines # <<>> /\ ~HasSeparator(f.lines[1])

ZeroLines(f) == f.readable /\ f.lines = <<>>

\* the indexes i of `processed` whose file parsed to version prefix k
ParsedTo(k) ==
    {i \in 1..Len(processed) :
        /\ parsed_result[processed[i]].ok
        /\ parsed_result[processed[i]].version_prefix = k}

PrefixesParsed ==
    {parsed_result[processed[i]].version_prefix :
        i \in {j \in 1..Len(processed) : parsed_result[processed[j]].ok}}

\* the indexes (in f.lines) of the non-blank lines after the header, in order
NonBlankIndexes(lines) ==
    SelectSeq([i \in 1..(Len(lines) - 1) |-> i + 1],
              LAMBDA i : \E j \in 1..Len(lines[i]) :
                            lines[i][j] \notin Whitespace)

\* the indexes of the lines at non-blank positions 1..7, and 8 and later
SymbolPositions(lines) ==
    LET nb == NonBlankIndexes(lines) IN SubSeq(nb, 1, Min(7, Len(nb)))

StructPositions(lines) ==
    LET nb == NonBlankIndexes(lines) IN SubSeq(nb, 8, Len(nb))

Tokens(lines, i) == SplitWs(lines[i])

SumOfLens(d) ==
    LET RECURSIVE sum(_)
        sum(S) == IF S = {} THEN 0
                  ELSE LET n == CHOOSE n \in S : TRUE
                       IN  Len(d[n]) + sum(S \ {n})
    IN  sum(DOMAIN d)

-----------------------------------------------------------------------------
(* C1: a file whose first line has no " - " yields no record: the parser   *)
(* returns the failure value for it, and the accumulator is what it would  *)
(* be had the file been absent from the tree.                              *)
C1_NoSeparatorNoRecord ==
    /\ \A i \in 1..Len(processed) :
          LacksSeparator(processed[i]) => ~parsed_result[processed[i]].ok
    /\ aggregated_data =
          process_root_directory(
              SelectSeq(processed, LAMBDA f : ~LacksSeparator(f)))

(* C2: every hex-value list of every symbol and member name of every       *)
(* version prefix in the accumulator holds no value twice.                 *)
C2_HexListsHaveNoDuplicate ==
    \A k \in DOMAIN aggregated_data :
        /\ \A n \in DOMAIN aggregated_data[k].symbols :
              NoDuplicate(aggregated_data[k].symbols[n])
        /\ \A n \in DOMAIN aggregated_data[k].structs :
              NoDuplicate(aggregated_data[k].structs[n])

(* C3: the builds list of a version prefix is as long as the number of     *)
(* files processed so far that parsed to that prefix, and a prefix is a    *)
(* key of the accumulator exactly when that number is at least 1.          *)
C3_BuildsCountFiles ==
    \A k \in DOMAIN aggregated_data \cup PrefixesParsed :
        /\ k \in DOMAIN aggregated_data <=> Cardinality(ParsedTo(k)) >= 1
        /\ k \in DOMAIN aggregated_data =>
              Len(aggregated_data[k].builds) = Cardinality(ParsedTo(k))

\* two files of one prefix with the same build string were both counted
C3_Witness ==
    \E k \in DOMAIN aggregated_data :
        /\ Len(aggregated_data[k].builds) >= 2
        /\ ~NoDuplicate(aggregated_data[k].builds)

(* C4, as claimed: for every file turned into a record whose stripped     *)
(* header has a " - ", version_prefix + "." + build is the text after the  *)
(* first " - ", whatever that text is.                                     *)
C4_PrefixDotBuildIsTokenAlways ==
    (pc = "returned" /\ parsed.ok /\ HasSeparator(Strip(file.lines[1]))) =>
        parsed.version_prefix \o <<".">> \o parsed.build
            = TextAfterFirstSeparator(Strip(file.lines[1]))

(* C4, amended: the reconstruction holds when the text after the first     *)
(* " - " contains a period; when it contains none, version_prefix is empty *)
(* and build is the whole text.                                            *)
C4_PrefixDotBuildIsToken ==
    (pc = "returned" /\ parsed.ok /\ HasSeparator(Strip(file.lines[1]))) =>
        LET token == TextAfterFirstSeparator(Strip(file.lines[1]))
        IN  IF HasPeriod(token)
            THEN parsed.version_prefix \o <<".">> \o parsed.build = token
            ELSE parsed.version_prefix = <<>> /\ parsed.build = token

\* a record whose version token has two periods, so that the prefix itself
\* was joined from two components
C4_Witness ==
    /\ pc = "returned" /\ parsed.ok
    /\ HasSeparator(Strip(file.lines[1]))
    /\ HasPeriod(parsed.version_prefix)
    /\ parsed.build # <<>>

(* C5: the os of an accumulator entry is the os of the first file, in      *)
(* processing order, that parsed to its version prefix, whatever files     *)
(* followed.                                                               *)
C5_OsOfFirstFile ==
    \A k \in DOMAIN aggregated_data :
        \E i \in ParsedTo(k) :
            /\ \A j \in ParsedTo(k) : i <= j
            /\ aggregated_data[k].os = parsed_result[processed[i]].os

\* a later file of the same prefix carried another os
C5_Witness ==
    \E k \in DOMAIN aggregated_data :
        \E j \in ParsedTo(k) :
            parsed_result[processed[j]].os # aggregated_data[k].os

\* what the files processed so far report, in processing order, for name n
\* of kind "symbols" or "structs" under version prefix k
Reported(k, kind, n) ==
    LET RECURSIVE cat(_)
        cat(i) ==
            IF i > Len(processed) THEN <<>>
            ELSE (IF i \in ParsedTo(k)
                     /\ n \in DOMAIN parsed_result[processed[i]].data[kind]
                  THEN parsed_result[processed[i]].data[kind][n]
                  ELSE <<>>) \o cat(i + 1)
    IN  cat(1)

FirstSeenOrder ==
    \A k \in DOMAIN aggregated_data : \A kind \in {"symbols", "structs"} :
        \A n \in DOMAIN aggregated_data[k][kind] :
            FirstSeen(aggregated_data[k][kind][n])
                = FirstSeen(Reported(k, kind, n))

GrowsAtTheEnd ==
    \A k \in DOMAIN aggregated_data :
        /\ k \in DOMAIN aggregated_data'
        /\ IsPrefix(aggregated_data[k].builds, aggregated_data'[k].builds)
        /\ \A kind \in {"symbols", "structs"} :
              \A n \in DOMAIN aggregated_data[k][kind] :
                  /\ n \in DOMAIN aggregated_data'[k][kind]
                  /\ IsPrefix(aggregated_data[k][kind][n],
                              aggregated_data'[k][kind][n])

(* C6: in every step each builds list and each hex-value list of the       *)
(* accumulator is a prefix of itself after the step, no key and no name    *)
(* disappears, and the distinct values of a name stand in the order in     *)
(* which the files first reported them.                                    *)
C6_ListsGrowAtTheEnd == [][GrowsAtTheEnd /\ FirstSeenOrder']_vars

\* the last file added a new value behind the values of an earlier file
C6_Witness ==
    /\ Len(processed) >= 2
    /\ \E k \in DOMAIN aggregated_data :
          LET before == process_root_directory(ButLast(processed))
          IN  /\ k \in DOMAIN before
              /\ \E n \in DOMAIN before[k].symbols :
                    Len(aggregated_data[k].symbols[n])
                        > Len(before[k].symbols[n])

\* the lines (by index in `lines`) that are well-shaped for their position
WellShapedSymbolLines(lines) ==
    {i \in Range(SymbolPositions(lines)) : Len(Tokens(lines, i)) = 2}

WellShapedStructLines(lines) ==
    {i \in Range(StructPositions(lines)) : Len(Tokens(lines, i)) >= 3}

(* C7: the symbols of a record come from exactly the lines at non-blank    *)
(* positions 1 to 7 that have two tokens, one value per such line, and the *)
(* structs from exactly the lines at non-blank positions 8 and later that  *)
(* have three tokens or more; blank lines take no position.                *)
C7_SevenNonBlankSymbolLines ==
    (pc = "returned" /\ parsed.ok) =>
        LET sym == WellShapedSymbolLines(file.lines)
            str == WellShapedStructLines(file.lines)
        IN  /\ DOMAIN parsed.data.symbols
                  = {Tokens(file.lines, i)[2] : i \in sym}
            /\ SumOfLens(parsed.data.symbols) = Cardinality(sym)
            /\ DOMAIN parsed.data.structs
                  = {Last(Tokens(file.lines, i)) : i \in str}
            /\ SumOfLens(parsed.data.structs) = Cardinality(str)

\* a blank line before the first content line, a three-token line at a
\* position up to 7 (recorded nowhere), a recorded symbol, and a line at
\* position 8 that only the skipping of the blank line makes a struct line
C7_Witness ==
    /\ pc = "returned" /\ parsed.ok
    /\ Len(file.lines) >= 3
    /\ Strip(file.lines[2]) = <<>>
    /\ \E i \in Range(SymbolPositions(file.lines)) :
          Len(Tokens(file.lines, i)) = 3
    /\ parsed.data.symbols # <<>>
    /\ Len(StructPositions(file.lines)) = 1
    /\ parsed.data.structs # <<>>

(* C8: a file with zero lines gives the failure value and changes nothing: *)
(* the accumulator is what the other files alone produce, and a run in     *)
(* which no file parsed returns the empty map.                             *)
C8_ZeroLinesNoRecord ==
    /\ \A i \in 1..Len(processed) :
          ZeroLines(processed[i]) => ~parsed_result[processed[i]].ok
    /\ aggregated_data =
          process_root_directory(
              SelectSeq(processed, LAMBDA f : ~ZeroLines(f)))
    /\ (pc = "done"
          /\ \A i \in 1..Len(processed) : ~parsed_result[processed[i]].ok)
        => result = <<>>

\* a run that met a zero-line file first, went on, and returned a map with
\* the record of the file after it
C8_Witness ==
    /\ pc = "done"
    /\ Len(processed) >= 2
    /\ ZeroLines(processed[1])
    /\ parsed_result[processed[2]].ok
    /\ result # <<>>

\* the values, in file order, of the lines among idxs whose name token (the
\* second for a symbol, the last for a member) is n
ValuesOf(lines, idxs, wellShaped, n) ==
    LET hits == SelectSeq(idxs,
                    LAMBDA i : i \in wellShaped /\ Last(Tokens(lines, i)) = n)
    IN  [j \in 1..Len(hits) |-> Tokens(lines, hits[j])[1]]

(* C9: a file that has a first line always yields a record, and in it each *)
(* name holds, in file order, the first token of every well-shaped line    *)
(* that names it (second token of a two-token symbol line, last token of a *)
(* struct line of three tokens or more); the other lines add nothing.      *)
C9_MalformedLinesSkippedAlone ==
    (pc = "returned" /\ file.readable /\ file.lines # <<>>) =>
        /\ parsed.ok
        /\ \A n \in DOMAIN parsed.data.symbols :
              parsed.data.symbols[n] =
                  ValuesOf(file.lines, SymbolPositions(file.lines),
                           WellShapedSymbolLines(file.lines), n)
        /\ \A n \in DOMAIN parsed.data.structs :
              parsed.data.structs[n] =
                  ValuesOf(file.lines, StructPositions(file.lines),
                           WellShapedStructLines(file.lines), n)
        /\ \A i \in WellShapedSymbolLines(file.lines) :
              Tokens(file.lines, i)[2] \in DOMAIN parsed.data.symbols
        /\ \A i \in WellShapedStructLines(file.lines) :
              Last(Tokens(file.lines, i)) \in DOMAIN parsed.data.structs

\* a malformed line in a symbol position and one in a struct position, each
\* followed by a well-shaped line that was recorded
C9_Witness ==
    /\ pc = "returned" /\ parsed.ok
    /\ \E i \in Range(SymbolPositions(file.lines)) :
          /\ Len(Tokens(file.lines, i)) # 2
          /\ \E j \in WellShapedSymbolLines(file.lines) : j > i
    /\ \E i \in Range(StructPositions(file.lines)) :
          /\ Len(Tokens(file.lines, i)) < 3
          /\ \E j \in WellShapedStructLines(file.lines) : j > i

\* the bijections of 1..n
Orders(n) ==
    {p \in [1..n -> 1..n] : \A i, j \in 1..n : p[i] = p[j] => i = j}

CountIn(s, x) == Cardinality({i \in 1..Len(s) : s[i] = x})

\* what of an accumulator does not depend on order: its keys, per key the
\* multiset of builds and the names, per name the set of values
OrderFree(agg) ==
    [k \in DOMAIN agg |->
        [builds  |-> [b \in Range(agg[k].builds) |-> CountIn(agg[k].builds, b)],
         symbols |-> [n \in DOMAIN agg[k].symbols |->
                        Range(agg[k].symbols[n])],
         structs |-> [n \in DOMAIN agg[k].structs |->
                        Range(agg[k].structs[n])]]]

(* C10: the files of a finished run, processed in any other order, give an *)
(* accumulator with the same keys, the same multiset of builds per key,    *)
(* the same names per key and the same set of values per name.             *)
C10_OrderOnlyShowsInOsAndListOrder ==
    pc = "done" =>
        \A p \in Orders(Len(processed)) :
            OrderFree(process_root_directory(
                          [i \in 1..Len(processed) |-> processed[p[i]]]))
                = OrderFree(result)

\* a finished run some other order of which gives another accumulator
C10_Witness ==
    /\ pc = "done"
    /\ \E p \in Orders(Len(processed)) :
          process_root_directory(
              [i \in 1..Len(processed) |-> processed[p[i]]]) # result

=============================================================================
